---- MODULE Spec2Model ----
(***************************************************************************)
(* Retrieval core of youagent: the SQLite-backed vector index              *)
(* (packages/index/src/sqlite-vss.ts) and the context selector             *)
(* (packages/agent/src/context.ts).                                        *)
(*                                                                         *)
(* The table vector_index is a sequence of rows in rowid order (the order  *)
(* in which an unordered SELECT scans it).  Every method of SqliteVssIndex *)
(* is synchronous inside (better-sqlite3), so each call is one step.       *)
(***************************************************************************)
EXTENDS Integers, Sequences, FiniteSets, TLC

VARIABLES rows, isOpen, written, last, inflight, stored, consent, session

vars == <<rows, isOpen, written, last, inflight, stored, consent, session>>

\* what lies outside the vector index: the batch a second connection has in
\* flight, the source_items table, the consent table, the chat session
app == <<inflight, stored, consent, session>>

\* ---------------------------------------------------------------- bounds
MaxBatch == 2        \* longest documents / embeddings list of one upsert
MaxK == 3            \* largest k (and maxResults) asked for
MaxWords == 3        \* most vocabulary words of one message
MaxCalls == 5        \* attempts the collaborator is ready to answer
MaxBatches == 2      \* full embedding batches of one init run

\* ------------------------------------------------------------- constants
dimension == 2                 \* the dimension the index is constructed with (768 by default)
DiversityCap == 3              \* "sourceCount >= 3"
DefaultMaxTokensPerSource == 500
CharsPerToken == 4
EmbedRetries == 3              \* pRetry(..., { retries: 3 }) of embed
ChatRetries == 3               \* pRetry(..., { retries: 3 }) of chat
DefaultFetchRetries == 3       \* retries = 3 of safeFetch
batchSize == 10                \* the embedding batches of init

Min(a, b) == IF a < b THEN a ELSE b
Max(a, b) == IF a > b THEN a ELSE b

\* ----------------------------------------------------------- JSON columns
\* embedding TEXT NOT NULL: JSON.stringify(embeddings[idx]) / JSON.parse
JsonStringifyVec(v) == [json |-> v]
JsonParseVec(t) == t.json

\* metadata TEXT: doc.metadata ? JSON.stringify(doc.metadata) : null, and
\* back: row.metadata ? JSON.parse(row.metadata) : undefined
Undefined == [kind |-> "undefined", source |-> ""]
MetaOf(s) == [kind |-> "object", source |-> s]
SqlNull == [kind |-> "null", source |-> ""]
MetaToColumn(m) == IF m.kind = "object" THEN [kind |-> "text", source |-> m.source] ELSE SqlNull
ColumnToMeta(c) == IF c.kind = "text" THEN [kind |-> "object", source |-> c.source] ELSE Undefined

\* ------------------------------------------------------------ the table
Ids(table) == {table[i].id : i \in 1..Len(table)}

\* INSERT OR IGNORE in place of INSERT OR REPLACE: a stored id keeps its row
InsertOrIgnore(table, item) ==
  IF item[1] \in Ids(table) THEN table
  ELSE Append(table, [id |-> item[1], embedding |-> item[2], metadata |-> item[3]])

\* an INSERT into a table without the primary key: a second row for the id
InsertDuplicate(table, item) ==
  Append(table, [id |-> item[1], embedding |-> item[2], metadata |-> item[3]])

\* INSERT OR REPLACE INTO vector_index (id, embedding, metadata): the row
\* holding the primary key is deleted, the new row gets the next rowid.
InsertOrReplace(table, item) ==
  LET kept == SelectSeq(table, LAMBDA r : r.id # item[1])
  IN  Append(kept, [id |-> item[1], embedding |-> item[2], metadata |-> item[3]])

\* DELETE ... WHERE id = ? that removes the first row in place of the row
\* of the id
DeleteFirstRow(table, id) == IF table = <<>> THEN table ELSE Tail(table)

\* DELETE FROM vector_index WHERE id = ?
DeleteWhereId(table, id) == SelectSeq(table, LAMBDA r : r.id # id)

\* the loop of statements inside a transaction function; statement number
\* failAt throws (0: none does)
RECURSIVE RunInserts(_, _, _, _)
RunInserts(table, items, i, failAt) ==
  IF i > Len(items) THEN [threw |-> FALSE, table |-> table]
  ELSE IF i = failAt THEN [threw |-> TRUE, table |-> table]
  ELSE RunInserts(InsertOrReplace(table, items[i]), items, i + 1, failAt)

RECURSIVE RunDeletes(_, _, _, _)
RunDeletes(table, idList, i, failAt) ==
  IF i > Len(idList) THEN [threw |-> FALSE, table |-> table]
  ELSE IF i = failAt THEN [threw |-> TRUE, table |-> table]
  ELSE RunDeletes(DeleteWhereId(table, idList[i]), idList, i + 1, failAt)

\* the loop run without a transaction: what was written before the throw stays
TransactionNoRollback(table, run) == run

\* db.transaction(fn)(args): BEGIN, fn, COMMIT; ROLLBACK to the table as it
\* was when fn throws.  run is what the loop of fn did.
Transaction(table, run) ==
  IF run.threw THEN [threw |-> TRUE, table |-> table]
  ELSE [threw |-> FALSE, table |-> run.table]

\* ------------------------------------------------------------ similarity
RECURSIVE SumProducts(_, _, _)
SumProducts(a, b, i) == IF i > Len(a) THEN 0 ELSE a[i] * b[i] + SumProducts(a, b, i + 1)

\* cosineSimilarity(a, b) for vectors of one length: the three sums of the
\* loop; the returned number is dotProduct / (sqrt(normA) * sqrt(normB))
cosineSimilarity(a, b) ==
  [dotProduct |-> SumProducts(a, b, 1), normA |-> SumProducts(a, a, 1), normB |-> SumProducts(b, b, 1)]

\* 0 / (0 * x) is NaN in IEEE arithmetic
IsNaN(s) == s.normA * s.normB = 0

\* x / sqrt(n) compared through sign(x) * x^2 / n
SignedSquare(x) == IF x < 0 THEN 0 - x * x ELSE x * x
ScoreGreater(s, t) ==
  /\ ~IsNaN(s)
  /\ ~IsNaN(t)
  /\ SignedSquare(s.dotProduct) * (t.normA * t.normB) > SignedSquare(t.dotProduct) * (s.normA * s.normB)

\* the comparator (a, b) => b.score - a.score, as the sort reads it: its
\* sign, a NaN difference counting as 0
Comparator(a, b) ==
  IF ScoreGreater(b.score, a.score) THEN 1
  ELSE IF ScoreGreater(a.score, b.score) THEN 0 - 1
  ELSE 0

\* ------------------------------------------------- Array.prototype.sort
\* The engine's sort for short arrays: the leading run is found (and
\* reversed when strictly descending), the rest is inserted by binary search.
RECURSIVE CountRun(_, _, _)
CountRun(arr, idx, descending) ==
  IF idx > Len(arr) THEN Len(arr)
  ELSE LET order == Comparator(arr[idx], arr[idx - 1])
       IN  IF (descending /\ order >= 0) \/ (~descending /\ order < 0) THEN idx - 1
           ELSE CountRun(arr, idx + 1, descending)

Reverse(arr) == [i \in 1..Len(arr) |-> arr[Len(arr) + 1 - i]]

RECURSIVE BinarySearch(_, _, _, _)
BinarySearch(arr, pivot, left, right) ==
  IF left >= right THEN left
  ELSE LET mid == left + ((right - left) \div 2)
       IN  IF Comparator(pivot, arr[mid]) < 0 THEN BinarySearch(arr, pivot, left, mid)
           ELSE BinarySearch(arr, pivot, mid + 1, right)

RECURSIVE BinaryInsertionSort(_, _)
BinaryInsertionSort(arr, start) ==
  IF start > Len(arr) THEN arr
  ELSE LET pivot == arr[start]
           left == BinarySearch(arr, pivot, 1, start)
           moved == [i \in 1..Len(arr) |->
                       IF i < left \/ i > start THEN arr[i]
                       ELSE IF i = left THEN pivot
                       ELSE arr[i - 1]]
       IN  BinaryInsertionSort(moved, start + 1)

ArraySort(arr) ==
  IF Len(arr) < 2 THEN arr
  ELSE LET descending == Comparator(arr[2], arr[1]) < 0
           runLength == CountRun(arr, 3, descending)
           run == IF descending
                  THEN Reverse(SubSeq(arr, 1, runLength)) \o SubSeq(arr, runLength + 1, Len(arr))
                  ELSE arr
       IN  BinaryInsertionSort(run, runLength + 1)

\* Array.prototype.slice(0, k): a negative end counts from the end
Slice(arr, k) ==
  LET end == IF k < 0 THEN Max(Len(arr) + k, 0) ELSE Min(k, Len(arr))
  IN  SubSeq(arr, 1, end)

\* ------------------------------------------------------- SqliteVssIndex
\* the methods below throw IndexError; the record says which message
\* search(queryEmbedding, k) on the table as it is: what the call throws or
\* returns
searchTable(table, queryEmbedding, k) ==
  IF ~isOpen THEN [threw |-> TRUE, error |-> "Failed to search index", results |-> <<>>]
  ELSE IF \E i \in 1..Len(table) : Len(JsonParseVec(table[i].embedding)) # Len(queryEmbedding)
  THEN [threw |-> TRUE, error |-> "Failed to search index", results |-> <<>>]
  ELSE LET results == [i \in 1..Len(table) |->
                         [id |-> table[i].id,
                          score |-> cosineSimilarity(queryEmbedding, JsonParseVec(table[i].embedding)),
                          metadata |-> ColumnToMeta(table[i].metadata)]]
       IN  [threw |-> FALSE, error |-> "", results |-> Slice(ArraySort(results), k)]

search(queryEmbedding, k) == searchTable(rows, queryEmbedding, k)

\* count(): SELECT COUNT(*)
count == Len(rows)

\* ---------------------------------------------------- history variables
\* written: the (id, vector, metadata) of the latest successful upsert of
\* every id not deleted since
RECURSIVE WriteAll(_, _, _, _)
WriteAll(w, documents, embeddings, i) ==
  IF i > Len(documents) THEN w
  ELSE WriteAll({e \in w : e.id # documents[i].id}
                  \cup {[id |-> documents[i].id, vector |-> embeddings[i], metadata |-> documents[i].metadata]},
                documents, embeddings, i + 1)

DocIds(documents) == {documents[i].id : i \in 1..Len(documents)}

NoCall ==
  [op |-> "none", threw |-> FALSE, error |-> "", ids |-> {}, before |-> 0, fresh |-> 0, failAt |-> 0,
   q |-> <<>>, k |-> 0, results |-> <<>>, value |-> 0, context |-> <<>>,
   maxChars |-> 0, docIds |-> {}, message |-> <<>>, intent |-> "",
   plan |-> [useGithub |-> FALSE, useRss |-> FALSE, useResume |-> FALSE, useTwitter |-> FALSE,
             forceFresh |-> FALSE, maxResults |-> 0],
   attempts |-> 0, retries |-> 0, outcomes |-> <<>>, batches |-> 0,
   calls |-> {}, printed |-> {}, line |-> <<>>, streamOutcomes |-> <<>>,
   fetched |-> {}, failed |-> {}, storeWrites |-> {}, embedCalls |-> {}, indexCalls |-> {},
   feeds |-> <<>>, selected |-> {}, nDocuments |-> 0, nEmbeddings |-> 0,
   texts |-> <<>>, embeddings |-> <<>>]

\* ------------------------------------------------------------- actions
\* an upsert without the test of the two lengths: the statements are run
\* for the documents that have an embedding
upsertUnchecked(table, documents, embeddings, failAt) ==
  LET items == [i \in 1..Min(Len(documents), Len(embeddings)) |->
                  <<documents[i].id, JsonStringifyVec(embeddings[i]), MetaToColumn(documents[i].metadata)>>]
      tx == Transaction(table, RunInserts(table, items, 1, failAt))
      short == Len(embeddings) < Len(documents)
      error == IF ~isOpen \/ tx.threw \/ short THEN "Failed to upsert documents" ELSE ""
  IN  [error |-> error, table |-> IF ~isOpen \/ short THEN table ELSE tx.table]

\* upsert(documents, embeddings) on a table: the error it throws ("": none)
\* and the table it leaves
upsert(table, documents, embeddings, failAt) ==
  LET items == [i \in 1..Len(documents) |->
                  <<documents[i].id, JsonStringifyVec(embeddings[i]), MetaToColumn(documents[i].metadata)>>]
      tx == Transaction(table, RunInserts(table, items, 1, failAt))
      uneven == Len(documents) # Len(embeddings)
      error == IF uneven THEN "Documents and embeddings length mismatch"
               ELSE IF ~isOpen THEN "Failed to upsert documents"
               ELSE IF tx.threw THEN "Failed to upsert documents"
               ELSE ""
  IN  [error |-> error, table |-> IF uneven \/ ~isOpen THEN table ELSE tx.table]

Upsert(documents, embeddings, failAt) ==
  LET out == upsert(rows, documents, embeddings, failAt)
  IN  /\ rows' = out.table
      /\ written' = IF out.error = "" THEN WriteAll(written, documents, embeddings, 1) ELSE written
      /\ last' = [NoCall EXCEPT !.op = "upsert", !.threw = (out.error # ""), !.error = out.error,
                                !.ids = DocIds(documents), !.before = Len(rows), !.failAt = failAt,
                                !.fresh = Cardinality(DocIds(documents) \ Ids(rows)),
                                !.nDocuments = Len(documents), !.nEmbeddings = Len(embeddings)]
      /\ UNCHANGED <<isOpen, app>>

Delete(ids, failAt) ==
  LET tx == Transaction(rows, RunDeletes(rows, ids, 1, failAt))
      error == IF ~isOpen \/ tx.threw THEN "Failed to delete documents" ELSE ""
      idSet == {ids[i] : i \in 1..Len(ids)}
  IN  /\ rows' = IF ~isOpen THEN rows ELSE tx.table
      /\ written' = IF error = "" THEN {e \in written : e.id \notin idSet} ELSE written
      /\ last' = [NoCall EXCEPT !.op = "delete", !.threw = (error # ""), !.error = error,
                                !.ids = idSet, !.before = Len(rows), !.failAt = failAt,
                                !.fresh = Cardinality(idSet \ Ids(rows))]
      /\ UNCHANGED <<isOpen, app>>

DeleteAll(fails) ==
  LET error == IF ~isOpen \/ fails THEN "Failed to delete all documents" ELSE ""
  IN  /\ rows' = IF error = "" THEN <<>> ELSE rows
      /\ written' = IF error = "" THEN {} ELSE written
      /\ last' = [NoCall EXCEPT !.op = "deleteAll", !.threw = (error # ""), !.error = error,
                                !.before = Len(rows)]
      /\ UNCHANGED <<isOpen, app>>

Count ==
  /\ last' = IF isOpen THEN [NoCall EXCEPT !.op = "count", !.value = count, !.before = Len(rows)]
             ELSE [NoCall EXCEPT !.op = "count", !.threw = TRUE, !.error = "Failed to count documents",
                                 !.before = Len(rows)]
  /\ UNCHANGED <<rows, isOpen, written, app>>

Search(queryEmbedding, k) ==
  LET out == search(queryEmbedding, k)
  IN  /\ last' = [NoCall EXCEPT !.op = "search", !.threw = out.threw, !.error = out.error,
                                !.q = queryEmbedding, !.k = k, !.results = out.results,
                                !.before = Len(rows)]
      /\ UNCHANGED <<rows, isOpen, written, app>>

\* close(): this.db.close()
Close ==
  /\ isOpen
  /\ isOpen' = FALSE
  /\ last' = [NoCall EXCEPT !.op = "close", !.before = Len(rows)]
  /\ UNCHANGED <<rows, written, app>>

\* ------------------------------------------------------------ pickContext
Marker == <<".", ".", ".">>

\* maxChars = maxTokensPerSource * 4
MaxChars(maxTokensPerSource) == maxTokensPerSource * CharsPerToken

\* a cut at maxChars that appends nothing
TruncateNoMarker(content, maxChars) ==
  IF Len(content) > maxChars THEN SubSeq(content, 1, maxChars) ELSE content

\* content.length > maxChars ? content.substring(0, maxChars) + '...' : content
Truncate(content, maxChars) ==
  IF Len(content) > maxChars THEN SubSeq(content, 1, maxChars) \o Marker ELSE content

\* a find that falls back on the first document when no id matches
FindItemOrFirst(sourceItems, id) ==
  LET found == {j \in 1..Len(sourceItems) : sourceItems[j].id = id}
  IN  IF found = {} THEN Min(1, Len(sourceItems)) ELSE CHOOSE j \in found : \A h \in found : j <= h

\* sourceItems.find((item) => item.id === result.id): the index of the first
\* item of that id, 0 for undefined
FindItem(sourceItems, id) ==
  LET found == {j \in 1..Len(sourceItems) : sourceItems[j].id = id}
  IN  IF found = {} THEN 0 ELSE CHOOSE j \in found : \A h \in found : j <= h

\* contextItems.unshift(item)
UnshiftItem(contextItems, item) == <<item>> \o contextItems

\* contextItems.push(item)
PushItem(contextItems, item) == Append(contextItems, item)

\* the loop over searchResults: contextItems and seenSources after result i
RECURSIVE PickLoop(_, _, _, _, _, _)
PickLoop(searchResults, sourceItems, maxTokensPerSource, i, contextItems, seenSources) ==
  IF i > Len(searchResults) THEN contextItems
  ELSE
    LET result == searchResults[i]
        found == FindItem(sourceItems, result.id)
    IN  IF found = 0
        THEN PickLoop(searchResults, sourceItems, maxTokensPerSource, i + 1, contextItems, seenSources)
        ELSE
          LET sourceItem == sourceItems[found]
              sourceKey == sourceItem.source
              sourceCount == Cardinality({s \in seenSources : s = sourceKey})
              maxChars == MaxChars(maxTokensPerSource)
              content == Truncate(sourceItem.content, maxChars)
              item == [content |-> content, source |-> sourceItem.source, title |-> sourceItem.title,
                       url |-> sourceItem.url,
                       date |-> IF sourceItem.publishedAt # "" THEN sourceItem.publishedAt
                                ELSE sourceItem.fetchedAt]
          IN  IF sourceCount >= DiversityCap
              THEN PickLoop(searchResults, sourceItems, maxTokensPerSource, i + 1, contextItems, seenSources)
              ELSE PickLoop(searchResults, sourceItems, maxTokensPerSource, i + 1,
                            PushItem(contextItems, item), seenSources \cup {sourceKey})

\* pickContext without its catch block: the error of search reaches the caller
pickContextRethrows(queryEmbedding, sourceItems, maxResults, maxTokensPerSource) ==
  LET searched == search(queryEmbedding, maxResults)
  IN  IF searched.threw THEN [threw |-> TRUE, context |-> <<>>]
      ELSE [threw |-> FALSE,
            context |-> PickLoop(searched.results, sourceItems, maxTokensPerSource, 1, <<>>, {})]

\* pickContext(query, queryEmbedding, vectorIndex, sourceItems, options):
\* what the call throws or returns; the catch block returns []
pickContext(queryEmbedding, sourceItems, maxResults, maxTokensPerSource) ==
  LET searched == search(queryEmbedding, maxResults)
  IN  IF searched.threw THEN [threw |-> FALSE, context |-> <<>>]
      ELSE [threw |-> FALSE,
            context |-> PickLoop(searched.results, sourceItems, maxTokensPerSource, 1, <<>>, {})]

\* last.results keeps what the inner search returned, last.error what it threw
PickContext(queryEmbedding, sourceItems, maxResults, maxTokensPerSource) ==
  LET searched == search(queryEmbedding, maxResults)
      out == pickContext(queryEmbedding, sourceItems, maxResults, maxTokensPerSource)
  IN  /\ last' = [NoCall EXCEPT !.op = "pickContext", !.threw = out.threw, !.error = searched.error,
                                !.q = queryEmbedding, !.k = maxResults, !.results = searched.results,
                                !.context = out.context, !.before = Len(rows),
                                !.maxChars = MaxChars(maxTokensPerSource),
                                !.docIds = DocIds(sourceItems)]
      /\ UNCHANGED <<rows, isOpen, written, app>>

\* ------------------------------------------------------ retried calls
\* what one attempt at the remote service does: it answers, it answers with
\* status 429 (or, for a fetch, a status >= 400), or it fails otherwise
Outcomes == {"ok", "rateLimit", "failure"}

\* every attempt of a call fails in one way / every attempt answers
AllFail(kind) == [n \in 1..MaxCalls |-> kind]
AllOk == [n \in 1..MaxCalls |-> "ok"]

\* a retry loop that allows one attempt more than retries + 1
RECURSIVE pRetryOneMore(_, _, _)
pRetryOneMore(outcomes, retries, attemptNumber) ==
  IF outcomes[attemptNumber] = "ok"
  THEN [threw |-> FALSE, attempts |-> attemptNumber, cause |-> ""]
  ELSE IF attemptNumber > retries + 1 \/ attemptNumber >= Len(outcomes)
  THEN [threw |-> TRUE, attempts |-> attemptNumber, cause |-> outcomes[attemptNumber]]
  ELSE pRetryOneMore(outcomes, retries, attemptNumber + 1)

\* pRetry(fn, { retries }): fn is run again after every error it throws, until
\* it returns or attempt retries + 1 has failed; the last error is rethrown
RECURSIVE pRetry(_, _, _)
pRetry(outcomes, retries, attemptNumber) ==
  IF outcomes[attemptNumber] = "ok"
  THEN [threw |-> FALSE, attempts |-> attemptNumber, cause |-> ""]
  ELSE IF attemptNumber > retries
  THEN [threw |-> TRUE, attempts |-> attemptNumber, cause |-> outcomes[attemptNumber]]
  ELSE pRetry(outcomes, retries, attemptNumber + 1)

\* the catch block of embed and chat: status 429 becomes RateLimitError,
\* anything else AIError
GeminiError(cause) ==
  IF cause = "" THEN "" ELSE IF cause = "rateLimit" THEN "RateLimitError" ELSE "AIError"

\* the vector the embedding model gives for a text
EmbedContent(text) == IF Len(text) % 2 = 1 THEN <<1, 0>> ELSE <<0, 1>>

\* an array of embeddings that lives across the attempts of one call
keepEmbeddings(leftover) == leftover

\* const embeddings: number[][] = [] at the start of every attempt
newEmbeddings(leftover) == <<>>

\* the array a failing attempt leaves behind: the vectors pushed before
\* embedContent threw for text failPos
RECURSIVE AttemptArray(_, _, _)
AttemptArray(texts, failPos, attemptNumber) ==
  newEmbeddings(IF attemptNumber = 1 THEN <<>> ELSE AttemptArray(texts, failPos, attemptNumber - 1))
    \o [i \in 1..(failPos - 1) |-> EmbedContent(texts[i])]

\* GeminiClient.embed(texts): the attempts are those of pRetry; an attempt
\* that fails does so at text failPos; without texts the service is not
\* called and no attempt fails
embed(texts, outcomes, failPos) ==
  LET tried == pRetry(IF texts = <<>> THEN AllOk ELSE outcomes, EmbedRetries, 1)
      embeddings == newEmbeddings(IF tried.attempts = 1 THEN <<>>
                                  ELSE AttemptArray(texts, failPos, tried.attempts - 1))
                      \o [i \in 1..Len(texts) |-> EmbedContent(texts[i])]
  IN  [threw |-> tried.threw, error |-> GeminiError(tried.cause), attempts |-> tried.attempts,
       embeddings |-> IF tried.threw THEN <<>> ELSE embeddings]

\* GeminiClient.chat(options)
chat(outcomes) ==
  LET tried == pRetry(outcomes, ChatRetries, 1)
  IN  [threw |-> tried.threw, error |-> GeminiError(tried.cause), attempts |-> tried.attempts]

\* GeminiClient.chatStream(options): one try block, no retry
chatStream(outcomes) ==
  [threw |-> outcomes[1] # "ok", error |-> IF outcomes[1] # "ok" THEN "AIError" ELSE "", attempts |-> 1]

\* safeFetch(url, options): options.retries, 3 when the option is absent
\* (given = FALSE)
safeFetch(given, retriesOption, outcomes) ==
  LET retries == IF given THEN retriesOption ELSE DefaultFetchRetries
      tried == pRetry(outcomes, retries, 1)
  IN  [threw |-> tried.threw, error |-> IF tried.threw THEN "ConnectorError" ELSE "",
       attempts |-> tried.attempts, retries |-> retries]

Embed(texts, outcomes, failPos) ==
  LET out == embed(texts, outcomes, failPos)
  IN  /\ last' = [NoCall EXCEPT !.op = "embed", !.threw = out.threw, !.error = out.error,
                                !.attempts = out.attempts, !.retries = EmbedRetries,
                                !.outcomes = outcomes, !.value = Len(out.embeddings),
                                !.before = Len(texts), !.failAt = failPos,
                                !.texts = texts, !.embeddings = out.embeddings]
      /\ UNCHANGED <<rows, isOpen, written, app>>

Chat(outcomes) ==
  LET out == chat(outcomes)
  IN  /\ last' = [NoCall EXCEPT !.op = "chat", !.threw = out.threw, !.error = out.error,
                                !.attempts = out.attempts, !.retries = ChatRetries,
                                !.outcomes = outcomes]
      /\ UNCHANGED <<rows, isOpen, written, app>>

ChatStream(outcomes) ==
  LET out == chatStream(outcomes)
  IN  /\ last' = [NoCall EXCEPT !.op = "chatStream", !.threw = out.threw, !.error = out.error,
                                !.attempts = out.attempts, !.retries = 0, !.outcomes = outcomes]
      /\ UNCHANGED <<rows, isOpen, written, app>>

SafeFetch(given, retriesOption, outcomes) ==
  LET out == safeFetch(given, retriesOption, outcomes)
  IN  /\ last' = [NoCall EXCEPT !.op = "safeFetch", !.threw = out.threw, !.error = out.error,
                                !.attempts = out.attempts, !.retries = out.retries,
                                !.outcomes = outcomes]
      /\ UNCHANGED <<rows, isOpen, written, app>>

\* ------------------------------------------------- init: the embeddings
\* the text and the document handed over for a source item (the content
\* stands for title and content)
TextOf(item) == item.content
DocumentOf(item) == [id |-> item.id, metadata |-> MetaOf(item.source)]

\* the loop for (let i = 0; i < items.length; i += batchSize): the table and
\* the batches done when it ends or throws.  Batch failBatch fails, in embed
\* (kind "rateLimit" or "failure") or in statement failAt of upsert (kind
\* "upsert").
RECURSIVE InitLoop(_, _, _, _, _, _, _)
InitLoop(table, w, items, i, failBatch, kind, failAt) ==
  IF ~(i < Len(items)) THEN [threw |-> FALSE, error |-> "", table |-> table, w |-> w, batches |-> i \div batchSize]
  ELSE
    LET batch == SubSeq(items, i + 1, Min(i + batchSize, Len(items)))
        texts == [j \in 1..Len(batch) |-> TextOf(batch[j])]
        fails == (i \div batchSize) + 1 = failBatch
        embeddings == embed(texts, IF fails /\ kind # "upsert" THEN AllFail(kind) ELSE AllOk, 1)
        documents == [j \in 1..Len(batch) |-> DocumentOf(batch[j])]
        out == upsert(table, documents, embeddings.embeddings, IF fails /\ kind = "upsert" THEN failAt ELSE 0)
    IN  IF embeddings.threw
        THEN [threw |-> TRUE, error |-> embeddings.error, table |-> table, w |-> w, batches |-> i \div batchSize]
        ELSE IF out.error # ""
        THEN [threw |-> TRUE, error |-> out.error, table |-> out.table, w |-> w, batches |-> i \div batchSize]
        ELSE InitLoop(out.table, WriteAll(w, documents, embeddings.embeddings, 1), items, i + batchSize,
                      failBatch, kind, failAt)

\* an init that undoes the batches it wrote when a later batch fails
generateEmbeddingsAllOrNothing(table, w, items, failBatch, kind, failAt) ==
  LET run == InitLoop(table, w, items, 0, failBatch, kind, failAt)
  IN  IF run.threw THEN [run EXCEPT !.table = table, !.w = w] ELSE run

\* the try block "Generate embeddings" of init; its catch prints the error
generateEmbeddings(table, w, items, failBatch, kind, failAt) ==
  InitLoop(table, w, items, 0, failBatch, kind, failAt)

GenerateEmbeddings(items, failBatch, kind, failAt) ==
  LET out == generateEmbeddings(rows, written, items, failBatch, kind, failAt)
  IN  /\ rows' = out.table
      /\ written' = out.w
      /\ last' = [NoCall EXCEPT !.op = "generateEmbeddings", !.error = out.error,
                                !.ids = DocIds(items), !.before = Len(rows), !.failAt = failBatch,
                                !.value = Len(items), !.batches = out.batches]
      /\ UNCHANGED <<isOpen, app>>

\* ---------------------------------------------------------------- planner
\* a message is the sequence of its characters
UpperCase == <<"A", "B", "C", "D", "E", "F", "G", "H", "I", "J", "K", "L", "M", "N", "O", "P", "Q", "R", "S", "T", "U", "V", "W", "X", "Y", "Z">>
LowerCase == <<"a", "b", "c", "d", "e", "f", "g", "h", "i", "j", "k", "l", "m", "n", "o", "p", "q", "r", "s", "t", "u", "v", "w", "x", "y", "z">>

\* String.prototype.toLowerCase on the letters A-Z
ToLowerCase(s) ==
  [i \in 1..Len(s) |->
     IF \E n \in 1..Len(UpperCase) : UpperCase[n] = s[i]
     THEN LowerCase[CHOOSE n \in 1..Len(UpperCase) : UpperCase[n] = s[i]]
     ELSE s[i]]

\* String.prototype.includes: the keyword occurs somewhere in the text
Includes(s, keyword) ==
  \E i \in 1..(Len(s) - Len(keyword) + 1) : SubSeq(s, i, i + Len(keyword) - 1) = keyword

IncludesAny(s, keywords) == \E keyword \in keywords : Includes(s, keyword)

CodingKeywords ==
  {<<"c", "o", "d", "e">>, <<"r", "e", "p", "o">>, <<"g", "i", "t", "h", "u", "b">>,
   <<"p", "r", "o", "j", "e", "c", "t">>, <<"p", "r", "o", "g", "r", "a", "m", "m", "i", "n", "g">>, <<"t", "e", "c", "h", "n", "i", "c", "a", "l">>,
   <<"l", "i", "b", "r", "a", "r", "y">>, <<"f", "r", "a", "m", "e", "w", "o", "r", "k">>}

CareerKeywords ==
  {<<"j", "o", "b">>, <<"c", "a", "r", "e", "e", "r">>, <<"r", "e", "s", "u", "m", "e">>,
   <<"c", "v">>, <<"e", "x", "p", "e", "r", "i", "e", "n", "c", "e">>, <<"w", "o", "r", "k">>,
   <<"r", "o", "l", "e">>, <<"p", "o", "s", "i", "t", "i", "o", "n">>, <<"h", "i", "r", "e">>,
   <<"i", "n", "t", "e", "r", "v", "i", "e", "w">>}

BrandingKeywords ==
  {<<"t", "w", "e", "e", "t">>, <<"t", "w", "i", "t", "t", "e", "r">>, <<"s", "o", "c", "i", "a", "l">>,
   <<"b", "l", "o", "g">>, <<"a", "r", "t", "i", "c", "l", "e">>, <<"p", "o", "s", "t">>,
   <<"b", "r", "a", "n", "d">>, <<"o", "n", "l", "i", "n", "e", " ", "p", "r", "e", "s", "e", "n", "c", "e">>}

FreshKeywords ==
  {<<"l", "a", "t", "e", "s", "t">>, <<"r", "e", "c", "e", "n", "t">>, <<"t", "o", "d", "a", "y">>,
   <<"t", "h", "i", "s", " ", "w", "e", "e", "k">>, <<"r", "e", "f", "r", "e", "s", "h">>, <<"u", "p", "d", "a", "t", "e">>}

\* classifyIntent with the career test ahead of the coding test
classifyIntentCareerFirst(message) ==
  LET lower == ToLowerCase(message)
  IN  IF IncludesAny(lower, CareerKeywords) THEN "career"
      ELSE IF IncludesAny(lower, CodingKeywords) THEN "coding"
      ELSE IF IncludesAny(lower, BrandingKeywords) THEN "branding"
      ELSE "general"

\* classifyIntent(message)
classifyIntent(message) ==
  LET lower == ToLowerCase(message)
  IN  IF IncludesAny(lower, CodingKeywords) THEN "coding"
      ELSE IF IncludesAny(lower, CareerKeywords) THEN "career"
      ELSE IF IncludesAny(lower, BrandingKeywords) THEN "branding"
      ELSE "general"

\* needsFreshData(message)
needsFreshData(message) == IncludesAny(ToLowerCase(message), FreshKeywords)

DefaultPlan(forceFresh) ==
  [useGithub |-> FALSE, useRss |-> FALSE, useResume |-> FALSE, useTwitter |-> FALSE,
   forceFresh |-> forceFresh, maxResults |-> 10]

\* makePlan that leaves maxResults at its default for every intent
makePlanDefaultResults(message) ==
  LET intent == classifyIntent(message)
      plan == DefaultPlan(needsFreshData(message))
  IN  IF intent = "coding" THEN [plan EXCEPT !.useGithub = TRUE, !.useResume = TRUE]
      ELSE IF intent = "career" THEN [plan EXCEPT !.useResume = TRUE, !.useGithub = TRUE]
      ELSE IF intent = "branding" THEN [plan EXCEPT !.useTwitter = TRUE, !.useRss = TRUE]
      ELSE [plan EXCEPT !.useGithub = TRUE, !.useRss = TRUE, !.useResume = TRUE, !.useTwitter = TRUE]

\* makePlan(message)
makePlan(message) ==
  LET intent == classifyIntent(message)
      forceFresh == needsFreshData(message)
      plan == DefaultPlan(forceFresh)
  IN  IF intent = "coding"
      THEN [plan EXCEPT !.useGithub = TRUE, !.useResume = TRUE, !.maxResults = 15]
      ELSE IF intent = "career"
      THEN [plan EXCEPT !.useResume = TRUE, !.useGithub = TRUE, !.maxResults = 10]
      ELSE IF intent = "branding"
      THEN [plan EXCEPT !.useTwitter = TRUE, !.useRss = TRUE, !.maxResults = 20]
      ELSE [plan EXCEPT !.useGithub = TRUE, !.useRss = TRUE, !.useResume = TRUE, !.useTwitter = TRUE,
                        !.maxResults = 10]

ClassifyIntent(message) ==
  /\ last' = [NoCall EXCEPT !.op = "classifyIntent", !.message = message,
                            !.intent = classifyIntent(message)]
  /\ UNCHANGED <<rows, isOpen, written, app>>

MakePlan(message) ==
  /\ last' = [NoCall EXCEPT !.op = "makePlan", !.message = message, !.plan = makePlan(message)]
  /\ UNCHANGED <<rows, isOpen, written, app>>

\* ------------------------------------------------------------- inputs
SeqsUpTo(S, n) == UNION {[1..m -> S] : m \in 0..n}

\* the store specification: batches over two ids; an entry is one of two
\* vectors of the index's dimension (one with metadata, one without) or a
\* shorter vector
StoreIds == {"a", "b"}
Vectors == {<<1, 0>>, <<0, 1>>, <<1>>}
Metadatas == {Undefined, MetaOf("github")}
Entries ==
  {e \in [id : StoreIds, metadata : Metadatas, vector : Vectors] :
     e.vector = <<0, 1>> <=> e.metadata # Undefined}
DocumentsOf(batch) == [i \in 1..Len(batch) |-> [id |-> batch[i].id, metadata |-> batch[i].metadata]]
EmbeddingsOf(batch) == [i \in 1..Len(batch) |-> batch[i].vector]

\* no batch in flight, empty source_items and consent tables, no chat session
NoBatch == [active |-> FALSE, kind |-> "", table |-> <<>>, w |-> {}, items |-> <<>>, i |-> 0, failAt |-> 0]
AllSources == {"github", "twitter", "rss", "resume"}
AppInit ==
  /\ inflight = NoBatch
  /\ stored = {}
  /\ consent = [s \in AllSources |-> "absent"]
  /\ session = "none"

Init ==
  /\ AppInit
  /\ rows = <<>>
  /\ isOpen = TRUE
  /\ written = {}
  /\ last = NoCall

\* search, count and pickContext leave the table as it is, so a read that
\* follows another read reaches no state that a read following the last write
\* does not reach: the callers below read once after each write
AfterRead == last.op \in {"search", "count", "pickContext"}

\* upsert with as many embeddings as documents
UpsertBatch ==
  \E batch \in SeqsUpTo(Entries, MaxBatch) : \E failAt \in 0..Len(batch) :
    Upsert(DocumentsOf(batch), EmbeddingsOf(batch), failAt)

\* upsert with lists of different lengths
UpsertUneven ==
  \E batch \in SeqsUpTo(Entries, 1), embeddings \in SeqsUpTo({<<1, 0>>}, MaxBatch) :
    /\ Len(batch) # Len(embeddings)
    /\ Upsert(DocumentsOf(batch), embeddings, 0)

DeleteBatch ==
  \E ids \in SeqsUpTo(StoreIds, MaxBatch) : \E failAt \in 0..Len(ids) : Delete(ids, failAt)

DeleteEverything == \E fails \in BOOLEAN : DeleteAll(fails)

CountStore == ~AfterRead /\ Count

SearchStore == ~AfterRead /\ \E q \in {<<1, 0>>, <<1>>} : Search(q, MaxK)

Next ==
  \/ UpsertBatch
  \/ UpsertUneven
  \/ DeleteBatch
  \/ DeleteEverything
  \/ CountStore
  \/ SearchStore
  \/ Close

Spec == Init /\ [][Next]_vars

\* the ranking specification: single writes over three ids, vectors with
\* different and equal similarities, the zero vector, and every k
RankIds == {"a", "b", "c"}
RankVectors == {<<1, 0>>, <<0, 1>>, <<1, 1>>, <<0, 0>>, <<1>>}
Queries == {<<1, 0>>, <<0, 0>>, <<1>>}
Ks == (0 - 1)..MaxK

UpsertOne ==
  \E id \in RankIds, v \in RankVectors :
    Upsert(<<[id |-> id, metadata |-> Undefined]>>, <<v>>, 0)

DeleteOne == \E id \in RankIds : Delete(<<id>>, 0)

SearchAny == ~AfterRead /\ \E q \in Queries, k \in Ks : Search(q, k)

NextRank ==
  \/ UpsertOne
  \/ DeleteOne
  \/ DeleteAll(FALSE)
  \/ CountStore
  \/ SearchAny
  \/ Close

SpecRank == Init /\ [][NextRank]_vars

\* the context specification: documents of two sources over one more id than
\* the diversity cap, a stale index where a document is missing
CtxIds == {"a", "b", "c", "d"}
Sources == {"github", "rss"}
Short == <<"s", "h", "o">>
Long == <<"l", "o", "n", "g", "e", "r">>
VeryLong == [i \in 1..(DefaultMaxTokensPerSource * CharsPerToken + 1) |-> "x"]
SourceItem(id, source) ==
  [id |-> id, source |-> source,
   content |-> IF id \in {"a", "c"} THEN Short ELSE IF id = "b" THEN Long ELSE VeryLong,
   title |-> IF id = "a" THEN "" ELSE "title",
   url |-> IF id = "b" THEN "" ELSE "https://example.org/" \o id,
   publishedAt |-> IF id \in {"a", "b"} THEN "" ELSE "2024-01-01",
   fetchedAt |-> "2024-02-02"]

\* the source items of an assignment of sources to ids ("": no document)
RECURSIVE ItemsOf(_, _)
ItemsOf(assign, ids) ==
  IF ids = {} THEN <<>>
  ELSE LET id == CHOOSE x \in ids : TRUE
           rest == ItemsOf(assign, ids \ {id})
       IN  IF assign[id] = "" THEN rest ELSE <<SourceItem(id, assign[id])>> \o rest

UpsertCtx ==
  \E id \in CtxIds :
    Upsert(<<[id |-> id, metadata |-> MetaOf("github")]>>, <<<<1, 0>>>>, 0)

PickAny ==
  /\ ~AfterRead
  /\ \E assign \in [CtxIds -> Sources \cup {""}], q \in {<<1, 0>>, <<1>>}, maxResults \in (0 - 1)..(MaxK + 1),
        maxTokensPerSource \in {DefaultMaxTokensPerSource, 1} :
       PickContext(q, ItemsOf(assign, CtxIds), maxResults, maxTokensPerSource)

NextCtx ==
  \/ UpsertCtx
  \/ PickAny
  \/ Close

SpecCtx == Init /\ [][NextCtx]_vars

\* the planner specification: the three messages of the documentation and
\* every message of up to MaxWords words of a vocabulary with keywords of
\* each kind, a capital letter, a keyword inside another ("work" in
\* "framework") and a keyword of two words
ReviewRepo == <<"C", "a", "n", " ", "y", "o", "u", " ", "r", "e", "v", "i", "e", "w", " ", "m", "y", " ", "l", "a", "t", "e", "s", "t", " ", "r", "e", "p", "o", "?">>
CoverLetter == <<"H", "e", "l", "p", " ", "m", "e", " ", "w", "r", "i", "t", "e", " ", "a", " ", "c", "o", "v", "e", "r", " ", "l", "e", "t", "t", "e", "r">>
Hello == <<"h", "e", "l", "l", "o">>
Words ==
  {<<"R", "e", "p", "o">>,
   <<"f", "r", "a", "m", "e", "w", "o", "r", "k">>,
   <<"j", "o", "b">>,
   <<"B", "l", "o", "g">>,
   <<"l", "a", "t", "e", "s", "t">>,
   <<"h", "e", "l", "l", "o">>,
   <<"o", "n", "l", "i", "n", "e">>,
   <<"p", "r", "e", "s", "e", "n", "c", "e">>}

RECURSIVE Join(_, _)
Join(words, i) ==
  IF i > Len(words) THEN <<>>
  ELSE IF i = Len(words) THEN words[i]
  ELSE words[i] \o <<" ">> \o Join(words, i + 1)

Messages == {ReviewRepo, CoverLetter, Hello} \cup {Join(ws, 1) : ws \in SeqsUpTo(Words, MaxWords)}

\* the message the user typed, not yet handled
InitPlan ==
  /\ AppInit
  /\ rows = <<>>
  /\ isOpen = TRUE
  /\ written = {}
  /\ \E message \in Messages : last = [NoCall EXCEPT !.message = message]

ClassifyTyped == last.op = "none" /\ ClassifyIntent(last.message)

PlanTyped == last.op = "none" /\ MakePlan(last.message)

NextPlan ==
  \/ ClassifyTyped
  \/ PlanTyped

SpecPlan == InitPlan /\ [][NextPlan]_vars

\* the retry specification: one call of each retried operation, against a
\* service whose answers to MaxCalls attempts are drawn freely
Answers == [1..MaxCalls -> Outcomes]

InitRetry ==
  /\ AppInit
  /\ rows = <<>>
  /\ isOpen = TRUE
  /\ written = {}
  /\ \E outcomes \in Answers : last = [NoCall EXCEPT !.outcomes = outcomes]

EmbedTexts ==
  /\ last.op = "none"
  /\ \E texts \in SeqsUpTo({"a", "bb"}, 2) \ {<<>>} : \E failPos \in 1..Len(texts) :
       Embed(texts, last.outcomes, failPos)

ChatOnce == last.op = "none" /\ Chat(last.outcomes)

ChatStreamOnce == last.op = "none" /\ ChatStream(last.outcomes)

FetchOnce ==
  /\ last.op = "none"
  /\ \/ SafeFetch(FALSE, 0, last.outcomes)
     \/ \E retries \in 0..(MaxCalls - 2) : SafeFetch(TRUE, retries, last.outcomes)

NextRetry ==
  \/ EmbedTexts
  \/ ChatOnce
  \/ ChatStreamOnce
  \/ FetchOnce

SpecRetry == InitRetry /\ [][NextRetry]_vars

\* the init specification: runs of the embedding step over the first n
\* source items, n around the batch boundaries, on an empty table and on the
\* table a first run left
ItemCounts == {full * batchSize + rest : full \in 0..MaxBatches, rest \in {0, 1}}
Item(n) ==
  [id |-> ToString(n), source |-> IF n % 2 = 0 THEN "github" ELSE "rss", content |-> ToString(n)]
FirstItems(n) == [j \in 1..n |-> Item(j)]

RunInit ==
  /\ last.op = "generateEmbeddings" => last.before = 0
  /\ \E n \in ItemCounts, failBatch \in 0..(MaxBatches + 1), kind \in {"rateLimit", "failure", "upsert"},
        failAt \in {1, batchSize} :
       /\ kind # "upsert" => failAt = 1
       /\ GenerateEmbeddings(FirstItems(n), failBatch, kind, failAt)

NextInit ==
  \/ RunInit
  \/ DeleteAll(FALSE)

SpecInit == Init /\ [][NextInit]_vars

\* ---------------------------------------------------------------- refresh
\* consentRepo.grant / revoke / isGranted on the consent table
grant(table, source) == [table EXCEPT ![source] = "granted"]
revoke(table, source) == [table EXCEPT ![source] = IF @ = "absent" THEN "absent" ELSE "revoked"]

\* an isGranted that is satisfied by any row of the source
isGrantedEver(table, source) == table[source] # "absent"

isGranted(table, source) == table[source] = "granted"

\* sourceItemsRepo.findById and upsert on source_items
findById(items, id) == {item \in items : item.id = id}
upsertItem(items, item) == {old \in items : old.id # item.id} \cup {item}

\* a test that takes every fetched item as changed
hasChangedAlways(existing, item) == TRUE

\* !existing || existing.contentHash !== item.contentHash
hasChanged(existing, item) ==
  existing = {} \/ \E old \in existing : old.contentHash # item.contentHash

\* the loop over the fetched items of one source.  st: the two stores and
\* what the run wrote so far; the item that fails and the step that fails
\* for it are given by failAt and stage ("embed" or "index").
RECURSIVE RefreshLoop(_, _, _, _, _)
RefreshLoop(st, items, i, failAt, stage) ==
  IF i > Len(items) THEN st
  ELSE
    LET item == items[i]
        existing == findById(st.stored, item.id)
        changed == hasChanged(existing, item)
        afterStore == [st EXCEPT !.stored = upsertItem(@, item), !.storeWrites = @ \cup {item.id}]
        embeddings == embed(<<TextOf(item)>>,
                            IF i = failAt /\ stage = "embed" THEN AllFail("rateLimit") ELSE AllOk, 1)
        out == upsert(st.table, <<DocumentOf(item)>>, embeddings.embeddings,
                      IF i = failAt /\ stage = "index" THEN 1 ELSE 0)
    IN  IF ~changed THEN RefreshLoop(st, items, i + 1, failAt, stage)
        ELSE IF embeddings.threw
        THEN [afterStore EXCEPT !.threw = TRUE, !.embedCalls = @ \cup {item.id}]
        ELSE IF out.error # ""
        THEN [afterStore EXCEPT !.threw = TRUE, !.embedCalls = @ \cup {item.id},
                                !.indexCalls = @ \cup {item.id}]
        ELSE RefreshLoop([afterStore EXCEPT !.table = out.table,
                                            !.w = WriteAll(@, <<DocumentOf(item)>>, embeddings.embeddings, 1),
                                            !.embedCalls = @ \cup {item.id},
                                            !.indexCalls = @ \cup {item.id}],
                         items, i + 1, failAt, stage)

\* a catch block that throws the error on, to the handler of the command
catchBlockRethrows(st, source) ==
  [st EXCEPT !.failed = @ \cup {source}, !.threw = FALSE, !.aborted = TRUE]

\* the catch block of one source, in refresh and in init: the failure is
\* printed and the command goes on
catchBlock(st, source) == [st EXCEPT !.failed = @ \cup {source}, !.threw = FALSE]

\* the block of refreshCommand for one source: consent and configuration are
\* tested, the connector is run, the changed items are stored and embedded
refreshSource(st, source, selected, configured, feed, fail) ==
  IF st.aborted \/ ~(selected /\ isGranted(consent, source) /\ configured) THEN st
  ELSE IF fail.source = source /\ fail.stage = "fetch"
  THEN catchBlock([st EXCEPT !.fetched = @ \cup {source}], source)
  ELSE LET run == RefreshLoop([st EXCEPT !.fetched = @ \cup {source}], feed, 1,
                              IF fail.source = source THEN fail.at ELSE 0, fail.stage)
       IN  IF run.threw THEN catchBlock(run, source) ELSE run

\* refreshCommand(options): GitHub, then RSS
refreshCommand(options, configured, feeds, fail) ==
  LET shouldRefreshAll == options.all \/ options.only = {}
      start == [stored |-> stored, table |-> rows, w |-> written, threw |-> FALSE, aborted |-> FALSE,
                fetched |-> {}, failed |-> {}, storeWrites |-> {}, embedCalls |-> {}, indexCalls |-> {}]
      github == refreshSource(start, "github", shouldRefreshAll \/ "github" \in options.only,
                              configured["github"], feeds["github"], fail)
  IN  refreshSource(github, "rss", shouldRefreshAll \/ "rss" \in options.only,
                    configured["rss"], feeds["rss"], fail)

Refresh(options, configured, feeds, fail) ==
  LET out == refreshCommand(options, configured, feeds, fail)
  IN  /\ stored' = out.stored
      /\ rows' = out.table
      /\ written' = out.w
      /\ last' = [NoCall EXCEPT !.op = "refresh", !.fetched = out.fetched, !.failed = out.failed,
                                !.storeWrites = out.storeWrites, !.embedCalls = out.embedCalls,
                                !.indexCalls = out.indexCalls, !.feeds = feeds,
                                !.selected = {s \in {"github", "rss"} :
                                                (options.all \/ options.only = {} \/ s \in options.only)
                                                /\ configured[s]}]
      /\ UNCHANGED <<isOpen, inflight, consent, session>>

Grant(source) ==
  /\ consent' = grant(consent, source)
  /\ last' = [NoCall EXCEPT !.op = "grant"]
  /\ UNCHANGED <<rows, isOpen, written, inflight, stored, session>>

Revoke(source) ==
  /\ consent' = revoke(consent, source)
  /\ last' = [NoCall EXCEPT !.op = "revoke"]
  /\ UNCHANGED <<rows, isOpen, written, inflight, stored, session>>

\* ------------------------------------------------------------------ chat
\* contentHash of a connector item: sha256 of its content
Sha256(content) == [sha256 |-> content]

\* a row of source_items
StoredItem(id, source, content) ==
  [id |-> id, source |-> source, content |-> content, contentHash |-> Sha256(content),
   title |-> SourceItem(id, source).title, url |-> SourceItem(id, source).url,
   publishedAt |-> SourceItem(id, source).publishedAt, fetchedAt |-> SourceItem(id, source).fetchedAt]

\* sourceItemsRepo.findBySource(source): the rows of one source, as a list
RECURSIVE ListOf(_)
ListOf(items) ==
  IF items = {} THEN <<>>
  ELSE LET item == CHOOSE x \in items : TRUE
       IN  <<item>> \o ListOf(items \ {item})

findBySource(source) == ListOf({item \in stored : item.source = source})

\* processSingleMessage that answers from an empty context as well
processSingleMessageAlwaysAnswers(message, embedOutcomes, streamOutcomes) ==
  LET plan == makePlan(message)
      allItems == findBySource("github") \o findBySource("twitter") \o findBySource("rss")
                    \o findBySource("resume")
      queryEmbeddings == embed(<<message>>, embedOutcomes, 1)
      picked == pickContext(queryEmbeddings.embeddings[1], allItems, plan.maxResults,
                            DefaultMaxTokensPerSource)
      stream == chatStream(streamOutcomes)
  IN  IF queryEmbeddings.threw
      THEN [threw |-> FALSE, calls |-> {"embed"}, printed |-> {"Error processing message"}, context |-> <<>>]
      ELSE IF stream.threw
      THEN [threw |-> FALSE, calls |-> {"embed", "search", "synthesize"},
            printed |-> {"Error processing message"}, context |-> picked.context]
      ELSE [threw |-> FALSE, calls |-> {"embed", "search", "synthesize"}, printed |-> {"answer"},
            context |-> picked.context]

\* processSingleMessage without its catch block
processSingleMessageNoCatch(message, embedOutcomes, streamOutcomes) ==
  LET plan == makePlan(message)
      allItems == findBySource("github") \o findBySource("twitter") \o findBySource("rss")
                    \o findBySource("resume")
      queryEmbeddings == embed(<<message>>, embedOutcomes, 1)
      picked == pickContext(queryEmbeddings.embeddings[1], allItems, plan.maxResults,
                            DefaultMaxTokensPerSource)
      stream == chatStream(streamOutcomes)
  IN  IF queryEmbeddings.threw
      THEN [threw |-> TRUE, calls |-> {"embed"}, printed |-> {}, context |-> <<>>]
      ELSE IF picked.context = <<>>
      THEN [threw |-> FALSE, calls |-> {"embed", "search"}, printed |-> {"No relevant information found."},
            context |-> <<>>]
      ELSE IF stream.threw
      THEN [threw |-> TRUE, calls |-> {"embed", "search", "synthesize"}, printed |-> {},
            context |-> picked.context]
      ELSE [threw |-> FALSE, calls |-> {"embed", "search", "synthesize"}, printed |-> {"answer"},
            context |-> picked.context]

\* processSingleMessage(message, gemini, vectorIndex): the collaborators it
\* called, what it printed and the context it used; its catch block prints
\* the error, so it never throws
processSingleMessage(message, embedOutcomes, streamOutcomes) ==
  LET plan == makePlan(message)
      allItems == findBySource("github") \o findBySource("twitter") \o findBySource("rss")
                    \o findBySource("resume")
      queryEmbeddings == embed(<<message>>, embedOutcomes, 1)
      picked == pickContext(queryEmbeddings.embeddings[1], allItems, plan.maxResults,
                            DefaultMaxTokensPerSource)
      stream == chatStream(streamOutcomes)
  IN  IF queryEmbeddings.threw
      THEN [threw |-> FALSE, calls |-> {"embed"}, printed |-> {"Error processing message"}, context |-> <<>>]
      ELSE IF picked.context = <<>>
      THEN [threw |-> FALSE, calls |-> {"embed", "search"}, printed |-> {"No relevant information found."},
            context |-> <<>>]
      ELSE IF stream.threw
      THEN [threw |-> FALSE, calls |-> {"embed", "search", "synthesize"},
            printed |-> {"Error processing message"}, context |-> picked.context]
      ELSE [threw |-> FALSE, calls |-> {"embed", "search", "synthesize"}, printed |-> {"answer"},
            context |-> picked.context]

\* String.prototype.trim on blanks
RECURSIVE TrimStart(_)
TrimStart(line) == IF line # <<>> /\ Head(line) = " " THEN TrimStart(Tail(line)) ELSE line
RECURSIVE TrimEnd(_)
TrimEnd(line) ==
  IF line # <<>> /\ line[Len(line)] = " " THEN TrimEnd(SubSeq(line, 1, Len(line) - 1)) ELSE line
Trim(line) == TrimEnd(TrimStart(line))

ExitWords == {<<"e", "x", "i", "t">>, <<"q", "u", "i", "t">>, <<"b", "y", "e">>}

\* command.slice(1).split(' ')[0].toLowerCase()
RECURSIVE UpToBlank(_)
UpToBlank(text) ==
  IF text = <<>> \/ Head(text) = " " THEN <<>> ELSE <<Head(text)>> \o UpToBlank(Tail(text))
CommandName(command) == ToLowerCase(UpToBlank(Tail(command)))

\* handleReplCommand(command, gemini, vectorIndex): :plan runs the planner
\* only, :refresh and :facts are placeholders
handleReplCommand(command) ==
  LET cmd == CommandName(command)
  IN  [threw |-> FALSE, calls |-> {},
       printed |-> IF cmd = <<>> THEN {"Invalid command"}
                   ELSE IF cmd = <<"h", "e", "l", "p">> THEN {"REPL Commands"}
                   ELSE IF cmd = <<"p", "l", "a", "n">> THEN {"Planner Analysis"}
                   ELSE IF cmd = <<"r", "e", "f", "r", "e", "s", "h">> THEN {"Feature coming soon!"}
                   ELSE {"Unknown command"}]

\* the callback of rl.question for one typed line
AskQuestion(line, embedOutcomes, streamOutcomes) ==
  LET trimmedMessage == Trim(line)
      out == IF trimmedMessage = <<>> THEN [threw |-> FALSE, calls |-> {}, printed |-> {}, context |-> <<>>]
             ELSE IF Head(trimmedMessage) = ":"
             THEN [threw |-> FALSE, calls |-> {}, printed |-> handleReplCommand(trimmedMessage).printed,
                   context |-> <<>>]
             ELSE IF ToLowerCase(trimmedMessage) \in ExitWords
             THEN [threw |-> FALSE, calls |-> {}, printed |-> {"Goodbye!"}, context |-> <<>>]
             ELSE processSingleMessage(trimmedMessage, embedOutcomes, streamOutcomes)
      exits == /\ trimmedMessage # <<>>
               /\ Head(trimmedMessage) # ":"
               /\ ToLowerCase(trimmedMessage) \in ExitWords
  IN  /\ session = "prompt"
      /\ session' = IF exits \/ out.threw THEN "ended" ELSE "prompt"
      /\ last' = [NoCall EXCEPT !.op = "askQuestion", !.line = line, !.message = trimmedMessage,
                                !.threw = out.threw, !.calls = out.calls, !.printed = out.printed,
                                !.context = out.context, !.outcomes = embedOutcomes,
                                !.streamOutcomes = streamOutcomes]
      /\ UNCHANGED <<rows, isOpen, written, inflight, stored, consent>>

\* process.on('SIGINT' / 'SIGTERM', handleExit)
Signal(name) ==
  /\ session = "prompt"
  /\ session' = "ended"
  /\ last' = [NoCall EXCEPT !.op = name, !.printed = {"Goodbye!"}]
  /\ UNCHANGED <<rows, isOpen, written, inflight, stored, consent>>

\* the input stream ends (Ctrl+D): readline closes, the pending question is
\* never answered and the process runs out of work
EndOfInput ==
  /\ session = "prompt"
  /\ session' = "ended"
  /\ last' = [NoCall EXCEPT !.op = "end of input"]
  /\ UNCHANGED <<rows, isOpen, written, inflight, stored, consent>>

\* the chat specification: a session over an index and a source_items table
\* as init or refresh may have left them (documents of two sources, entries
\* of the index without a document, a vector of another length), and the
\* lines a user types
ChatIds == {"a", "b"}
Blog == <<"b", "l", "o", "g">>
Lines ==
  {<<>>, <<" ">>,
   <<":", "h", "e", "l", "p">>,
   <<":", "p", "l", "a", "n", " ", "h", "e", "l", "l", "o">>,
   <<":", "R", "e", "f", "r", "e", "s", "h", " ", "g", "i", "t", "h", "u", "b">>,
   <<":">>,
   <<"e", "x", "i", "t">>,
   <<" ", "Q", "U", "I", "T">>,
   <<"B", "y", "e", " ">>,
   <<"e", "x", "i", "t", " ", "n", "o", "w">>,
   Hello, Blog, ReviewRepo}

InitChat ==
  /\ isOpen = TRUE
  /\ written = {}
  /\ last = NoCall
  /\ inflight = NoBatch
  /\ consent = [s \in AllSources |-> "absent"]
  /\ session = "prompt"
  /\ \E assign \in [ChatIds -> Sources \cup {""}] :
       stored = {StoredItem(id, assign[id], SourceItem(id, assign[id]).content) :
                   id \in {x \in ChatIds : assign[x] # ""}}
  /\ \E indexed \in SeqsUpTo(ChatIds, 2), v \in {<<1, 0>>, <<1>>} :
       rows = RunInserts(<<>>, [i \in 1..Len(indexed) |->
                                  <<indexed[i], JsonStringifyVec(v), MetaToColumn(MetaOf("github"))>>],
                         1, 0).table

\* the collaborators may fail while a message is processed
TypeLine ==
  \E line \in Lines, embedFails \in BOOLEAN, streamFails \in BOOLEAN :
    /\ (embedFails \/ streamFails) => (line \in {Hello, Blog, ReviewRepo} /\ ~(embedFails /\ streamFails))
    /\ AskQuestion(line, IF embedFails THEN AllFail("rateLimit") ELSE AllOk,
                   IF streamFails THEN AllFail("failure") ELSE AllOk)

Interrupt == \E name \in {"SIGINT", "SIGTERM"} : Signal(name)

NextChat ==
  \/ TypeLine
  \/ Interrupt
  \/ EndOfInput

SpecChat == InitChat /\ [][NextChat]_vars

\* ------------------------------------------------------- refresh: inputs
\* what the connectors of GitHub and of the RSS feed return: one item, in
\* one of two versions of its content
Fetched(id, source, content) == StoredItem(id, source, content)
GithubFeeds ==
  {<<Fetched("g1", "github", "v")>>, <<Fetched("g1", "github", "vv")>>}
RssFeeds == {<<Fetched("r1", "rss", "v")>>, <<Fetched("r1", "rss", "vv")>>}

NoFailure == [source |-> "", stage |-> "none", at |-> 0]
Failures ==
  {NoFailure}
  \cup {[source |-> s, stage |-> "fetch", at |-> 0] : s \in {"github", "rss"}}
  \cup {[source |-> s, stage |-> st, at |-> 1] : s \in {"github", "rss"}, st \in {"embed", "index"}}

\* refresh, refresh --github, refresh --rss, refresh --all, refresh --twitter
RefreshOptions ==
  {[all |-> FALSE, only |-> {}], [all |-> FALSE, only |-> {"github"}],
   [all |-> FALSE, only |-> {"rss"}], [all |-> TRUE, only |-> {}],
   [all |-> FALSE, only |-> {"twitter"}]}

\* GITHUB_TOKEN and SITE_RSS_URL set, or one of them missing
Configurations ==
  {[s \in {"github", "rss"} |-> s \notin missing] : missing \in {{}, {"github"}, {"rss"}}}

InitRefresh == Init

RunRefresh ==
  \E options \in RefreshOptions, configured \in Configurations,
     g \in GithubFeeds, r \in RssFeeds, fail \in Failures :
       /\ Cardinality({x \in {1, 2, 3} :
                         \/ x = 1 /\ options # [all |-> FALSE, only |-> {}]
                         \/ x = 2 /\ \E s \in {"github", "rss"} : ~configured[s]
                         \/ x = 3 /\ fail # NoFailure}) <= 1
       /\ Refresh(options, configured, [github |-> g, rss |-> r], fail)

GrantConsent == \E source \in {"github", "rss"} : Grant(source)
RevokeConsent == \E source \in {"github", "rss"} : Revoke(source)

NextRefresh ==
  \/ RunRefresh
  \/ GrantConsent
  \/ RevokeConsent

SpecRefresh == InitRefresh /\ [][NextRefresh]_vars

\* ----------------------------------------------------- init: the command
\* sourceItemsRepo.upsert of every fetched item
RECURSIVE UpsertItems(_, _, _)
UpsertItems(items, feed, i) ==
  IF i > Len(feed) THEN items ELSE UpsertItems(upsertItem(items, feed[i]), feed, i + 1)

\* the block of init for one source: the connector is run and its items
\* are stored, inside the try of the source
connectorBlock(st, source, run, feed, fails) ==
  IF st.aborted \/ ~run THEN st
  ELSE IF source \in fails THEN catchBlock([st EXCEPT !.fetched = @ \cup {source}], source)
  ELSE [st EXCEPT !.fetched = @ \cup {source},
                  !.stored = UpsertItems(@, feed, 1),
                  !.storeWrites = @ \cup {feed[i].id : i \in 1..Len(feed)}]

\* initCommand from "Grant consent" on.  answers: the sources the user
\* enabled (github: a username was given); configured: GITHUB_TOKEN and
\* TWITTER_RSS_URL are set; fails: the connectors that throw; failBatch: the
\* batch of the embedding step that fails (0: none).
initCommand(answers, configured, feeds, fails, failBatch) ==
  LET start == [stored |-> stored, threw |-> FALSE, aborted |-> FALSE,
                fetched |-> {}, failed |-> {}, storeWrites |-> {}]
      github == connectorBlock(start, "github", "github" \in answers /\ configured["github"],
                               feeds["github"], fails)
      twitter == connectorBlock(github, "twitter", "twitter" \in answers /\ configured["twitter"],
                                feeds["twitter"], fails)
      rss == connectorBlock(twitter, "rss", "rss" \in answers, feeds["rss"], fails)
      resume == connectorBlock(rss, "resume", "resume" \in answers, feeds["resume"], fails)
      items == ListOf({item \in resume.stored : item.source = "github"})
                 \o ListOf({item \in resume.stored : item.source = "twitter"})
                 \o ListOf({item \in resume.stored : item.source = "rss"})
                 \o ListOf({item \in resume.stored : item.source = "resume"})
      embeddings == generateEmbeddings(rows, written, items, failBatch, "rateLimit", 1)
  IN  [consent |-> [s \in AllSources |->
                      IF s = "github" \/ s \in answers THEN "granted" ELSE consent[s]],
       stored |-> resume.stored, fetched |-> resume.fetched, failed |-> resume.failed,
       storeWrites |-> resume.storeWrites,
       embedded |-> ~resume.aborted,
       error |-> IF resume.aborted THEN "" ELSE embeddings.error,
       table |-> IF resume.aborted THEN rows ELSE embeddings.table,
       w |-> IF resume.aborted THEN written ELSE embeddings.w]

InitCommand(answers, configured, feeds, fails, failBatch) ==
  LET out == initCommand(answers, configured, feeds, fails, failBatch)
  IN  /\ consent' = out.consent
      /\ stored' = out.stored
      /\ rows' = out.table
      /\ written' = out.w
      /\ last' = [NoCall EXCEPT !.op = "init", !.fetched = out.fetched, !.failed = out.failed,
                                !.storeWrites = out.storeWrites, !.error = out.error,
                                !.calls = IF out.embedded THEN {"generateEmbeddings"} ELSE {},
                                !.ids = fails,
                                !.selected = {s \in answers : s \in DOMAIN configured => configured[s]}]
      /\ UNCHANGED <<isOpen, inflight, session>>

\* init on a new database, with one item per connector
InitFeeds == [s \in AllSources |-> <<Fetched(IF s = "resume" THEN "s1" ELSE SubSeq(s, 1, 1) \o "1", s, "v")>>]

RunInitCommand ==
  /\ stored = {}
  /\ rows = <<>>
  /\ \A s \in AllSources : consent[s] = "absent"
  /\ \E optional \in SUBSET {"twitter", "rss", "resume"}, fails \in SUBSET AllSources,
        missing \in {{}, {"github"}, {"twitter"}}, failBatch \in {0, 1} :
       InitCommand({"github"} \cup optional, [s \in {"github", "twitter"} |-> s \notin missing],
                   InitFeeds, fails, failBatch)

\* youagent refresh after init, when the GitHub content has changed
RefreshAfterInit ==
  \E r \in RssFeeds, fail \in Failures :
    Refresh([all |-> FALSE, only |-> {}], [s \in {"github", "rss"} |-> TRUE],
            [github |-> <<Fetched("g1", "github", "vv")>>, rss |-> r], fail)

NextFlow ==
  \/ RunInitCommand
  \/ RefreshAfterInit

SpecFlow == Init /\ [][NextFlow]_vars

\* ------------------------------------------------ a batch and its readers
\* A batch of upsert or delete is a transaction of one connection: its
\* statements run one by one on the connection's own view of the table and
\* reach the database file at COMMIT.  A search of another connection (a
\* chat session while refresh is writing) runs between any two statements.

\* a reader that sees the statements of a transaction not yet committed
dirtyTable(committed, batch) == IF batch.active THEN batch.table ELSE committed

\* the table a SELECT of another connection reads while a transaction is
\* open (journal_mode = WAL): the last committed one
visibleTable(committed, batch) == committed

ConcEntries == [id : StoreIds, metadata : {Undefined}, vector : {<<1, 0>>, <<0, 1>>}]

\* insertMany(items) is entered: BEGIN
BeginUpsert ==
  /\ ~inflight.active
  /\ isOpen
  /\ \E batch \in SeqsUpTo(ConcEntries, MaxBatch) \ {<<>>} : \E failAt \in 0..Len(batch) :
       inflight' = [active |-> TRUE, kind |-> "upsert", table |-> rows,
                    w |-> WriteAll(written, DocumentsOf(batch), EmbeddingsOf(batch), 1),
                    items |-> [i \in 1..Len(batch) |->
                                 <<batch[i].id, JsonStringifyVec(batch[i].vector),
                                   MetaToColumn(batch[i].metadata)>>],
                    i |-> 0, failAt |-> failAt]
  /\ last' = [NoCall EXCEPT !.op = "begin"]
  /\ UNCHANGED <<rows, isOpen, written, stored, consent, session>>

\* deleteMany(ids) is entered: BEGIN
BeginDelete ==
  /\ ~inflight.active
  /\ isOpen
  /\ \E ids \in SeqsUpTo(StoreIds, MaxBatch) \ {<<>>} : \E failAt \in 0..Len(ids) :
       inflight' = [active |-> TRUE, kind |-> "delete", table |-> rows,
                    w |-> {e \in written : e.id \notin {ids[i] : i \in 1..Len(ids)}},
                    items |-> ids, i |-> 0, failAt |-> failAt]
  /\ last' = [NoCall EXCEPT !.op = "begin"]
  /\ UNCHANGED <<rows, isOpen, written, stored, consent, session>>

\* stmt.run of the next item; a statement that throws ends the batch with
\* ROLLBACK and the IndexError of the method
Statement ==
  /\ inflight.active
  /\ inflight.i < Len(inflight.items)
  /\ IF inflight.i + 1 = inflight.failAt
     THEN /\ inflight' = NoBatch
          /\ last' = [NoCall EXCEPT !.op = inflight.kind, !.threw = TRUE,
                                    !.error = IF inflight.kind = "upsert"
                                              THEN "Failed to upsert documents"
                                              ELSE "Failed to delete documents"]
     ELSE /\ inflight' = [inflight EXCEPT
                            !.table = IF inflight.kind = "upsert"
                                      THEN InsertOrReplace(@, inflight.items[inflight.i + 1])
                                      ELSE DeleteWhereId(@, inflight.items[inflight.i + 1]),
                            !.i = @ + 1]
          /\ last' = [NoCall EXCEPT !.op = "statement"]
  /\ UNCHANGED <<rows, isOpen, written, stored, consent, session>>

\* the loop of the transaction function has ended: COMMIT
Commit ==
  /\ inflight.active
  /\ inflight.i = Len(inflight.items)
  /\ rows' = inflight.table
  /\ written' = inflight.w
  /\ inflight' = NoBatch
  /\ last' = [NoCall EXCEPT !.op = inflight.kind]
  /\ UNCHANGED <<isOpen, stored, consent, session>>

\* search(queryEmbedding, k) of another connection
ConcurrentSearch ==
  /\ last.op # "search"
  /\ \E q \in {<<1, 0>>, <<0, 1>>} :
       LET out == searchTable(visibleTable(rows, inflight), q, MaxK)
       IN  last' = [NoCall EXCEPT !.op = "search", !.threw = out.threw, !.error = out.error,
                                  !.q = q, !.k = MaxK, !.results = out.results,
                                  !.before = Len(rows)]
  /\ UNCHANGED <<rows, isOpen, written, app>>

NextConc ==
  \/ BeginUpsert
  \/ BeginDelete
  \/ Statement
  \/ Commit
  \/ ConcurrentSearch

SpecConc == Init /\ [][NextConc]_vars

\* ===================================================================
\* Properties
\* ===================================================================
FragmentsOf(context, source) == {i \in 1..Len(context) : context[i].source = source}
StoredVector(i) == JsonParseVec(rows[i].embedding)
SearchFails(q) == ~isOpen \/ \E i \in 1..Len(rows) : Len(StoredVector(i)) # Len(q)

\* C1: the list pickContext returns holds at most 3 fragments of one source.
C1_AtMostThreePerSource ==
  last.op = "pickContext" =>
    \A s \in Sources : Cardinality(FragmentsOf(last.context, s)) <= DiversityCap

C3_KBound ==
  (last.op = "search" /\ ~last.threw) =>
    Len(last.results) = IF last.k <= 0 THEN 0 ELSE Min(last.k, count)

\* C4: every stored embedding has exactly the length the index was created
\* with (an upsert with another length fails and stores nothing).
C4_StoredDimension == \A i \in 1..Len(rows) : Len(StoredVector(i)) = dimension

\* C5: search with a query vector of another length than the index's
\* dimension fails, in every store state.
C5_QueryDimension ==
  (last.op = "search" /\ Len(last.q) # dimension) => last.threw

RowOf(id) == CHOOSE i \in 1..Len(rows) : rows[i].id = id
Holds(e) ==
  \E i \in 1..Len(rows) :
    /\ rows[i].id = e.id
    /\ StoredVector(i) = e.vector
    /\ ColumnToMeta(rows[i].metadata) = e.metadata
WrittenIds == {e.id : e \in written}
Others(table, ids) == SelectSeq(table, LAMBDA r : r.id \notin ids)

\* C6: an id is stored once, with the vector and the metadata of its latest
\* upsert, and an upsert of stored ids only leaves count() as it was (count()
\* grows by the number of ids that were not stored).
C6_UpsertReplaces ==
  /\ \A i, j \in 1..Len(rows) : rows[i].id = rows[j].id => i = j
  /\ \A e \in written : Holds(e)
  /\ (last.op = "upsert" /\ ~last.threw) => count = last.before + last.fresh

C6_Witness ==
  /\ last.op = "upsert"
  /\ ~last.threw
  /\ last.ids # {}
  /\ last.fresh = 0
  /\ count = 2

\* C7: an upsert that fails leaves the table exactly as it was; an upsert
\* that succeeds has stored every entry of its batch and touched no other row.
C7_UpsertAtomic ==
  [][last'.op = "upsert" =>
       IF last'.threw THEN rows' = rows
       ELSE /\ last'.ids \subseteq Ids(rows')
            /\ \A e \in written' : e.id \in last'.ids => Holds(e)'
            /\ Others(rows', last'.ids) = Others(rows, last'.ids)]_vars

C7_Witness ==
  /\ last.op = "upsert"
  /\ last.threw
  /\ isOpen
  /\ last.failAt = 2
  /\ last.fresh = 2
  /\ count = last.before

\* C8: search returns its results by descending score, entries of equal
\* score in the order of their rows (the order of their latest write).
C8_SortedStable ==
  (last.op = "search" /\ ~last.threw) =>
    \A i, j \in 1..Len(last.results) :
      i < j =>
        LET a == last.results[i]
            b == last.results[j]
        IN  /\ ~ScoreGreater(b.score, a.score)
            /\ (a.id \in Ids(rows) /\ b.id \in Ids(rows) /\ ~IsNaN(a.score) /\ ~IsNaN(b.score)
                /\ ~ScoreGreater(a.score, b.score)) => RowOf(a.id) < RowOf(b.id)

\* C9: a search returns only ids upserted and not deleted since; a delete
\* that succeeds leaves none of its ids stored and lowers count() by the
\* number of its ids that were stored; on an open store whose statements run,
\* delete raises no error, missing ids included; repeating a delete changes
\* nothing.
C9_Delete ==
  /\ []((last.op = "search" /\ ~last.threw) =>
          \A i \in 1..Len(last.results) : last.results[i].id \in WrittenIds)
  /\ []((last.op = "delete" /\ ~last.threw) =>
          /\ last.ids \cap Ids(rows) = {}
          /\ count = last.before - (Cardinality(last.ids) - last.fresh))
  /\ []((last.op = "delete" /\ isOpen /\ last.failAt = 0) => ~last.threw)
  /\ [][(last.op = "delete" /\ ~last.threw /\ last'.op = "delete" /\ ~last'.threw
          /\ last'.ids = last.ids) => rows' = rows]_vars

C9_Witness ==
  /\ last.op = "delete"
  /\ ~last.threw
  /\ Cardinality(last.ids) = 1
  /\ last.fresh = 0
  /\ count = 1
  /\ last.before = 2

\* C10: count() is the number of distinct ids upserted since the last
\* deleteAll and not deleted since; after deleteAll count() is 0 and a search
\* of the emptied store returns nothing.
C10_CountIsLiveIds ==
  /\ count = Cardinality(WrittenIds)
  /\ (last.op = "deleteAll" /\ ~last.threw) => (count = 0 /\ written = {})
  /\ (last.op = "search" /\ ~last.threw /\ written = {}) => last.results = <<>>

C10_Witness ==
  /\ last.op = "deleteAll"
  /\ ~last.threw
  /\ last.before = 2
  /\ count = 0

\* the score of row i against the query q
ScoreOfRow(q, i) == cosineSimilarity(q, StoredVector(i))
ResultIds(results) == {results[i].id : i \in 1..Len(results)}
VectorOfId(id) == StoredVector(RowOf(id))

\* C11: every score search returns is a number of [-1, 1]; for an all-zero
\* query or stored vector the score is 0 or the call fails, and no NaN score
\* is placed in the ranking.
C11_ScoreInRange ==
  (last.op = "search" /\ ~last.threw) =>
    \A i \in 1..Len(last.results) :
      LET s == last.results[i].score
      IN  /\ ~IsNaN(s)
          /\ s.dotProduct * s.dotProduct <= s.normA * s.normB

\* C12: with [1,0], [0,1] and [1,1] stored, search([1,0], 3) returns [1,0],
\* then [1,1], then [0,1]; in every search an entry of strictly higher cosine
\* similarity to the query is never ranked below one of lower similarity
\* (nor left out while the lower one is returned).
C12_RanksByCosine ==
  (last.op = "search" /\ ~last.threw) =>
    /\ \A i, j \in 1..Len(last.results) :
         i < j => ~ScoreGreater(last.results[j].score, last.results[i].score)
    /\ \A r \in 1..Len(rows) : \A i \in 1..Len(last.results) :
         rows[r].id \notin ResultIds(last.results) =>
           ~ScoreGreater(ScoreOfRow(last.q, r), last.results[i].score)
    /\ (/\ last.q = <<1, 0>>
        /\ last.k = 3
        /\ Len(rows) = 3
        /\ {StoredVector(r) : r \in 1..Len(rows)} = {<<1, 0>>, <<0, 1>>, <<1, 1>>})
       => [i \in 1..Len(last.results) |-> VectorOfId(last.results[i].id)]
            = <<<<1, 0>>, <<1, 1>>, <<0, 1>>>>

\* the example of C12 alone
C12_Example ==
  (/\ last.op = "search"
   /\ ~last.threw
   /\ last.q = <<1, 0>>
   /\ last.k = 3
   /\ Len(rows) = 3
   /\ {StoredVector(r) : r \in 1..Len(rows)} = {<<1, 0>>, <<0, 1>>, <<1, 1>>})
  => [i \in 1..Len(last.results) |-> VectorOfId(last.results[i].id)]
       = <<<<1, 0>>, <<1, 1>>, <<0, 1>>>>

\* the id of the document a fragment was made of (its source and url name it)
FragmentId(f) == CHOOSE id \in CtxIds : SourceItem(id, f.source).url = f.url
FragmentIds(context) == [i \in 1..Len(context) |-> FragmentId(context[i])]
PosInResults(id) == CHOOSE i \in 1..Len(last.results) : last.results[i].id = id

\* C13: a document longer than the per-fragment budget (2000 characters by
\* default) gives a fragment of exactly its first budget characters followed
\* by the marker "..."; a document within the budget is passed unmodified.
C13_Truncation ==
  last.op = "pickContext" =>
    /\ MaxChars(DefaultMaxTokensPerSource) = 2000
    /\ \A i \in 1..Len(last.context) :
         LET f == last.context[i]
             doc == SourceItem(FragmentId(f), f.source)
         IN  IF Len(doc.content) > last.maxChars
             THEN /\ Len(f.content) = last.maxChars + 3
                  /\ SubSeq(f.content, 1, last.maxChars) = SubSeq(doc.content, 1, last.maxChars)
                  /\ SubSeq(f.content, last.maxChars + 1, last.maxChars + 3) = <<".", ".", ".">>
             ELSE f.content = doc.content

C13_Witness ==
  /\ last.op = "pickContext"
  /\ last.maxChars = 2000
  /\ \E i, j \in 1..Len(last.context) :
       /\ Len(last.context[i].content) = 2003
       /\ last.context[j].content = Long

\* C14: the fragments of pickContext come in the order in which search
\* returned their ids, and every fragment belongs to an id search returned.
C14_KeepsSearchOrder ==
  last.op = "pickContext" =>
    LET ids == FragmentIds(last.context)
    IN  /\ \A i \in 1..Len(ids) : ids[i] \in ResultIds(last.results)
        /\ \A i, j \in 1..Len(ids) : i < j => PosInResults(ids[i]) < PosInResults(ids[j])

C14_Witness ==
  /\ last.op = "pickContext"
  /\ Len(last.results) = 4
  /\ Len(last.context) = 3
  /\ [i \in 1..4 |-> last.results[i].id] = <<"d", "c", "b", "a">>

PlanSources(plan) ==
  {s \in {"github", "rss", "resume", "twitter"} :
     \/ s = "github" /\ plan.useGithub
     \/ s = "rss" /\ plan.useRss
     \/ s = "resume" /\ plan.useResume
     \/ s = "twitter" /\ plan.useTwitter}

\* C16: classifyIntent lowercases the text and tests the keyword sets in the
\* order coding, career, branding: a coding term gives 'coding' whatever else
\* the message holds, a career term without a coding term 'career', only
\* branding terms 'branding', no term 'general'; the call never fails.
C16_IntentPriority ==
  last.op = "classifyIntent" =>
    LET lower == ToLowerCase(last.message)
        coding == \E w \in CodingKeywords : Includes(lower, w)
        career == \E w \in CareerKeywords : Includes(lower, w)
        branding == \E w \in BrandingKeywords : Includes(lower, w)
    IN  /\ ~last.threw
        /\ coding => last.intent = "coding"
        /\ (career /\ ~coding) => last.intent = "career"
        /\ (branding /\ ~career /\ ~coding) => last.intent = "branding"
        /\ (~branding /\ ~career /\ ~coding) => last.intent = "general"

C16_Witness ==
  /\ last.op = "classifyIntent"
  /\ last.intent = "coding"
  /\ IncludesAny(ToLowerCase(last.message), CareerKeywords)
  /\ IncludesAny(ToLowerCase(last.message), BrandingKeywords)
  /\ ~IncludesAny(last.message, CodingKeywords)

\* C17: "Can you review my latest repo?" is classified 'coding', "Help me
\* write a cover letter" 'career' and "hello" 'general'.
C17_Examples ==
  last.op = "classifyIntent" =>
    /\ last.message = ReviewRepo => last.intent = "coding"
    /\ last.message = CoverLetter => last.intent = "career"
    /\ last.message = Hello => last.intent = "general"

\* C18: makePlan selects {github, resume} with maxResults 15 for coding,
\* {resume, github} with 10 for career, {twitter, rss} with 20 for branding
\* and all four sources with 10 for general; forceFresh is the result of the
\* recency-keyword test alone.
C18_PlanTable ==
  last.op = "makePlan" =>
    LET intent == classifyIntent(last.message)
        plan == last.plan
    IN  /\ intent = "coding" => (PlanSources(plan) = {"github", "resume"} /\ plan.maxResults = 15)
        /\ intent = "career" => (PlanSources(plan) = {"resume", "github"} /\ plan.maxResults = 10)
        /\ intent = "branding" => (PlanSources(plan) = {"twitter", "rss"} /\ plan.maxResults = 20)
        /\ intent = "general" =>
             (PlanSources(plan) = {"github", "rss", "resume", "twitter"} /\ plan.maxResults = 10)
        /\ plan.forceFresh = (\E w \in FreshKeywords : Includes(ToLowerCase(last.message), w))

C18_Witness ==
  /\ last.op = "makePlan"
  /\ classifyIntent(last.message) = "branding"
  /\ last.plan.forceFresh
  /\ last.plan.maxResults = 20
  /\ PlanSources(last.plan) = {"twitter", "rss"}

\* the ids of the batches a run of init completed
CompletedIds == {ToString(j) : j \in 1..Min(last.batches * batchSize, last.value)}

\* C19: when embedding or upserting batch n of init fails, the entries of
\* batches 1 .. n-1 stay in the vector store: init neither removes nor rolls
\* back the batches it has written.
C19_EarlierBatchesStay ==
  last.op = "generateEmbeddings" =>
    /\ (last.error # "" /\ last.failAt >= 1) => last.batches = last.failAt - 1
    /\ \A id \in CompletedIds :
         /\ id \in Ids(rows)
         /\ VectorOfId(id) = EmbedContent(id)
         /\ \E e \in written : e.id = id
    /\ count >= Cardinality(CompletedIds)

C19_Witness ==
  /\ last.op = "generateEmbeddings"
  /\ last.error = "RateLimitError"
  /\ last.failAt = 3
  /\ last.before = 0
  /\ count = 2 * batchSize

\* C20: embed, chat, chatStream and safeFetch make at least one and at most
\* 1 + retries attempts (retries is 3 for embed and chat, the option of
\* safeFetch with default 3), whether an attempt fails by rate limit or
\* otherwise; the call fails exactly when its last allowed attempt fails and
\* then surfaces the error.
C20_BoundedRetries ==
  last.op \in {"embed", "chat", "chatStream", "safeFetch"} =>
    /\ last.attempts >= 1
    /\ last.attempts <= 1 + last.retries
    /\ last.op \in {"embed", "chat"} => last.retries = 3
    /\ last.op = "chatStream" => last.attempts = 1
    /\ \A n \in 1..(last.attempts - 1) : last.outcomes[n] # "ok"
    /\ last.threw <=> last.outcomes[last.attempts] # "ok"
    /\ last.threw => (last.attempts = 1 + last.retries /\ last.error # "")

C20_Witness ==
  /\ last.op = "embed"
  /\ last.threw
  /\ last.attempts = 4
  /\ last.outcomes[1] = "rateLimit"
  /\ last.outcomes[2] = "failure"
  /\ last.outcomes[5] = "ok"

\* C21: when the context of a chat message is empty, the CLI prints "No
\* relevant information found." and does not call the synthesis step.
C21_EmptyContextMessage ==
  (last.op = "askQuestion" /\ "search" \in last.calls /\ last.context = <<>>) =>
    /\ last.printed = {"No relevant information found."}
    /\ "synthesize" \notin last.calls

C21_Witness ==
  /\ last.op = "askQuestion"
  /\ "search" \in last.calls
  /\ last.context = <<>>
  /\ Len(rows) = 2
  /\ stored # {}

\* C26: every context fragment used to answer a chat message comes from a
\* source the plan of that message marks as eligible.
C26_PlanSourcesApplied ==
  (last.op = "askQuestion" /\ "search" \in last.calls) =>
    \A i \in 1..Len(last.context) : last.context[i].source \in PlanSources(makePlan(last.message))

\* the line typed last was handed to processSingleMessage
IsChatMessage ==
  /\ last.op = "askQuestion"
  /\ last.message # <<>>
  /\ Head(last.message) # ":"
  /\ ToLowerCase(last.message) \notin ExitWords
EmbedFailed == pRetry(last.outcomes, EmbedRetries, 1).threw
StreamFailed == ~EmbedFailed /\ last.context # <<>> /\ last.streamOutcomes[1] # "ok"

HasFreshVector(item) ==
  \E i \in 1..Len(rows) : rows[i].id = item.id /\ StoredVector(i) = EmbedContent(TextOf(item))
RowsOfId(table, id) == {table[i] : i \in {j \in 1..Len(table) : table[j].id = id}}

\* C24: a fetched item whose id is in the content store with the same
\* content hash makes refresh write nothing for it: neither the content
\* store nor the vector index is written, and no embedding is asked for.
C24_UnchangedNotRewritten ==
  [][last'.op = "refresh" =>
       \A s \in {"github", "rss"} : \A i \in 1..Len(last'.feeds[s]) :
         LET item == last'.feeds[s][i]
         IN  (\E old \in stored : old.id = item.id /\ old.contentHash = item.contentHash) =>
               /\ item.id \notin last'.storeWrites \cup last'.embedCalls \cup last'.indexCalls
               /\ findById(stored', item.id) = findById(stored, item.id)
               /\ RowsOfId(rows', item.id) = RowsOfId(rows, item.id)]_vars

C24_Witness ==
  /\ last.op = "refresh"
  /\ last.fetched = {"github", "rss"}
  /\ last.failed = {}
  /\ last.feeds["github"][1] \in stored
  /\ "g1" \notin last.storeWrites
  /\ last.storeWrites = {"r1"}
  /\ last.indexCalls = {"r1"}

\* C27: the content store and the vector index do not drift apart: an item
\* whose new content hash a refresh run wrote has its vector upserted again
\* in the same run, or is still taken as changed by the next refresh.
C27_NoStaleVector ==
  last.op = "refresh" =>
    \A item \in stored :
      item.id \in last.storeWrites =>
        \/ HasFreshVector(item)
        \/ hasChanged(findById(stored, item.id), item)

\* C28: refresh runs the connector of a source and writes its items only
\* while the consent of the source is granted: a source whose consent was
\* revoked or never granted is not fetched, stored or embedded.
C28_ConsentGatesRefresh ==
  [][last'.op = "refresh" =>
       \A s \in {"github", "rss"} :
         consent[s] # "granted" =>
           /\ s \notin last'.fetched
           /\ \A i \in 1..Len(last'.feeds[s]) :
                LET id == last'.feeds[s][i].id
                IN  /\ id \notin last'.storeWrites \cup last'.embedCalls \cup last'.indexCalls
                    /\ findById(stored', id) = findById(stored, id)
                    /\ RowsOfId(rows', id) = RowsOfId(rows, id)]_vars

C28_Witness ==
  /\ last.op = "refresh"
  /\ consent["github"] = "revoked"
  /\ consent["rss"] = "granted"
  /\ "github" \in last.selected
  /\ last.fetched = {"rss"}
  /\ \E item \in stored : item.id = "g1" /\ item # last.feeds["github"][1]
  /\ "r1" \in last.storeWrites

\* C22: a failing collaborator does not abort the flow.  In init every
\* connector that is enabled and configured is run, whichever of them fail,
\* each failure is reported and the embedding step is run; in refresh a
\* failure of GitHub does not keep RSS from being refreshed.
C22_FailuresDoNotAbort ==
  /\ last.op = "init" =>
       /\ last.fetched = last.selected
       /\ last.failed = last.ids \cap last.selected
       /\ "generateEmbeddings" \in last.calls
  /\ (last.op = "refresh" /\ "github" \in last.failed /\ "rss" \in last.selected
        /\ isGranted(consent, "rss")) => "rss" \in last.fetched

C22_Witness ==
  /\ last.op = "init"
  /\ last.selected = AllSources
  /\ last.failed = {"github", "rss"}
  /\ last.storeWrites = {"t1", "s1"}
  /\ Len(rows) = 2

\* C30: upsert with a list of documents and a list of embeddings of
\* different lengths fails with the IndexError of the length test before
\* anything is written: the table is as it was.
C30_UnevenRejected ==
  [][(last'.op = "upsert" /\ last'.nDocuments # last'.nEmbeddings) =>
       /\ last'.threw
       /\ last'.error = "Documents and embeddings length mismatch"
       /\ rows' = rows
       /\ written' = written]_vars

C30_Witness ==
  /\ last.op = "upsert"
  /\ last.nDocuments = 1
  /\ last.nEmbeddings = 2
  /\ last.threw
  /\ Len(rows) > 0

\* C25: embed(texts) returns exactly one vector per text, in the order of
\* the texts, also when an earlier attempt failed partway and the call was
\* retried.
C25_OneVectorPerText ==
  (last.op = "embed" /\ ~last.threw) =>
    /\ Len(last.embeddings) = Len(last.texts)
    /\ \A i \in 1..Len(last.texts) : last.embeddings[i] = EmbedContent(last.texts[i])

C25_Witness ==
  /\ last.op = "embed"
  /\ ~last.threw
  /\ last.texts = <<"a", "bb">>
  /\ last.failAt = 2
  /\ last.attempts = 3
  /\ last.embeddings = <<<<1, 0>>, <<0, 1>>>>

\* C23: a search that runs while a batch of upsert or delete is in flight
\* never sees the batch partly applied: it sees the store as it was before
\* the batch or as it is after the whole batch; and a search changes
\* nothing in the store.
C23_NoPartialBatch ==
  /\ []((last.op = "search" /\ ~last.threw) =>
          {<<last.results[i].id, last.results[i].score>> : i \in 1..Len(last.results)}
            = {<<e.id, cosineSimilarity(last.q, e.vector)>> : e \in written})
  /\ [][last'.op = "search" => (rows' = rows /\ inflight' = inflight /\ written' = written)]_vars

C23_Witness ==
  /\ last.op = "search"
  /\ inflight.active
  /\ inflight.i = 1
  /\ Len(inflight.items) = 2
  /\ inflight.table # rows
  /\ Len(last.results) = 1

====
